---- MODULE Spec2Model ----
(***************************************************************************)
(* Reliable transaction submission of xrpl-py:                             *)
(*   src/xrpl/asyncio/transaction/reliable_submission.py                   *)
(*   src/xrpl/asyncio/transaction/ledger.py                                *)
(* One coroutine, send_reliable_submission, submits a signed transaction   *)
(* and then polls the node (_wait_for_final_transaction_outcome) until the *)
(* transaction is validated or its LastLedgerSequence can no longer be     *)
(* met.  Every await of the coroutine is a pair of steps: the call is      *)
(* issued, and later the reply (a value or a raised exception) arrives.    *)
(***************************************************************************)
EXTENDS Integers, Sequences, FiniteSets, TLC

\* ------------------------------------------------------------------ bounds
\* Largest number of lookups one execution may issue in the bounded model.
MaxPolls == 3

\* Largest number of lookups of each of the resolutions run side by side.
PairPolls == 2

\* ------------------------------------------------------- program constants
_LEDGER_CLOSE_TIME == 4

\* -------------------------------------------------------------- input sets
\* Ledger sequence numbers used as expiry heights and oracle readings.
Heights == {10, 20, 50, 60, 100, 101}

\* Heights of the node's latest validated ledger when the submit is sent.
SubmitHeights == {10, 60}

\* engine_result codes a submit response may carry, and advisory messages.
EngineResults == {"tesSUCCESS", "tefPAST_SEQ", "tecUNFUNDED"}
Messages == {"msg1", "msg2"}

\* Failures the network layer or a helper outside this module may raise.
Exceptions == {"XRPLRequestFailureException", "TransportFailure"}

\* Error codes of an unsuccessful response to the tx request.
TxErrors == {"txnNotFound", "tooBusy"}

\* The signed transactions handed to send_reliable_submission; the optional
\* field last_ledger_sequence may be missing.
Transactions ==
    [blob : {"txA"}, has_lls : {TRUE}, last_ledger_sequence : Heights]
    \cup
    [blob : {"txA"}, has_lls : {FALSE}, last_ledger_sequence : {0}]

\* Transaction.get_hash(): the identifier derived from the signed blob.
get_hash(t) == <<"hash", t.blob>>

\* No reply received yet / no outcome yet.
NoReply == [op |-> "none"]
NoOutcome == [kind |-> "none"]

\* The task has not been cancelled.
NoCancel == [at |-> "none", sleeps |-> 0, lookups |-> 0, oracles |-> 0]

\* Hashes a submit response may echo back in tx_json: the hash of the
\* submitted blob or some other hash.
EchoedHashes == {<<"hash", "txA">>, <<"hash", "txB">>}

\* Replies of tx_main_methods.submit_transaction(transaction, client); the
\* accepted code comes with its one advisory text, a rejection with any.
SubmitReplies ==
    [op : {"submit"}, raised : {TRUE}, exc : Exceptions]
    \cup
    [op : {"submit"}, raised : {FALSE},
     engine_result : {"tesSUCCESS"}, engine_result_message : {"msg1"},
     tx_hash : EchoedHashes]
    \cup
    [op : {"submit"}, raised : {FALSE},
     engine_result : EngineResults \ {"tesSUCCESS"},
     engine_result_message : Messages,
     tx_hash : EchoedHashes]

\* Replies of client.request_impl(Tx(...)): a transport failure, an
\* unsuccessful response, or a successful response whose result may or may
\* not hold the keys "validated" and "LastLedgerSequence".
TxReplies ==
    [op : {"tx"}, raised : {TRUE}, exc : {"TransportFailure"}]
    \cup
    [op : {"tx"}, raised : {FALSE}, is_successful : {FALSE}, error : TxErrors,
     has_validated : {FALSE}, validated : {FALSE},
     has_lls : {FALSE}, LastLedgerSequence : {0}]
    \cup
    [op : {"tx"}, raised : {FALSE}, is_successful : {TRUE}, error : {""},
     has_validated : {TRUE}, validated : BOOLEAN,
     has_lls : {TRUE}, LastLedgerSequence : Heights]
    \cup
    [op : {"tx"}, raised : {FALSE}, is_successful : {TRUE}, error : {""},
     has_validated : {FALSE}, validated : {FALSE},
     has_lls : {TRUE}, LastLedgerSequence : Heights]
    \cup
    [op : {"tx"}, raised : {FALSE}, is_successful : {TRUE}, error : {""},
     has_validated : {TRUE}, validated : BOOLEAN,
     has_lls : {FALSE}, LastLedgerSequence : {0}]
    \cup
    [op : {"tx"}, raised : {FALSE}, is_successful : {TRUE}, error : {""},
     has_validated : {FALSE}, validated : {FALSE},
     has_lls : {FALSE}, LastLedgerSequence : {0}]

VARIABLES
    transaction,             \* argument of send_reliable_submission
    pc,                      \* position of the coroutine
    transaction_hash,        \* local of send_reliable_submission / resolver
    last_ledger_sequence,    \* local of the resolver (line 47)
    latest_ledger_sequence,  \* local of the resolver (line 48)
    outcome,                 \* what send_reliable_submission returned/raised
    submits, sleeps, lookups, oracles,   \* calls issued so far
    elapsed,                 \* seconds spent in asyncio.sleep
    lookup_key,              \* hash sent with the latest tx request
    ledger_at_submit,        \* node: validated ledger height at submission
    last_submit,             \* node: latest reply to submit
    last_lookup,             \* node: latest reply to the tx request
    lookup_replies,          \* node: number of tx requests answered
    expiries_seen,           \* node: LastLedgerSequence values it reported
    oracle_log,              \* node: heights reported so far, in order
    last_raised,             \* latest exception raised by a collaborator
    trace,                   \* calls issued and replies received, in order
    cancelled,               \* where the caller cancelled the task, if it did
    tasks                    \* resolutions running side by side on one client

vars == <<transaction, pc, transaction_hash, last_ledger_sequence,
          latest_ledger_sequence, outcome, submits, sleeps, lookups, oracles,
          elapsed, lookup_key, ledger_at_submit, last_submit, last_lookup,
          lookup_replies, expiries_seen, oracle_log, last_raised, trace,
          cancelled,
                   tasks>>

Last(s) == s[Len(s)]

\* Height of the node's latest validated ledger as last observed.
ledger == IF oracle_log = <<>> THEN ledger_at_submit ELSE Last(oracle_log)

\* Replies of ledger_methods.get_latest_validated_ledger_sequence(client):
\* the height never decreases.
OracleReplies ==
    [op : {"ledger"}, raised : {TRUE}, exc : Exceptions]
    \cup
    [op : {"ledger"}, raised : {FALSE},
     height : {h \in Heights : h >= ledger}]

\* ------------------------------------------------- results and exceptions
\* A coroutine that returned a value / that raised an exception.
Return(response) == [kind |-> "returned", response |-> response]
Raise(exc, detail) == [kind |-> "raised", exc |-> exc, detail |-> detail]

\* Variant: the failure is caught and re-raised as the module's own exception.
PropagateWrapped(reply) ==
    Raise("XRPLReliableSubmissionException", <<"raised by", reply.op>>)

\* An exception raised by a collaborator passes through unchanged: neither
\* function has a try/except.
Propagate(reply) == Raise(reply.exc, <<"raised by", reply.op>>)

\* Variant: the unsuccessful response is reported with the module's own
\* exception class.
get_transaction_from_hash_own_class(reply) ==
    IF reply.raised
    THEN Propagate(reply)
    ELSE IF ~reply.is_successful
         THEN Raise("XRPLReliableSubmissionException",
                    <<"result", reply.error>>)
         ELSE Return(reply)

\* ledger.py: get_transaction_from_hash, applied to the reply of
\* client.request_impl(Tx(transaction=tx_hash, ...)).
get_transaction_from_hash(reply) ==
    IF reply.raised
    THEN Propagate(reply)
    ELSE IF ~reply.is_successful
         THEN Raise("XRPLRequestFailureException", <<"result", reply.error>>)
         ELSE Return(reply)

\* Variant: the flag is read negated.
IsValidatedNegated(result) == result.has_validated /\ ~result.validated

\* Variant: the flag is tested only when the expiry height accompanies it.
IsValidatedWithExpiry(result) ==
    result.has_validated /\ result.validated /\ result.has_lls

\* reliable_submission.py line 43:
\*   "validated" in result and result["validated"]
IsValidated(result) == result.has_validated /\ result.validated

\* Variant: a missing expiry height is read with a default (dict.get) and
\* the resolver goes on to the oracle.
LookupDecisionDefaultExpiry(result) ==
    IF IsValidated(result)
    THEN "return"
    ELSE "query_latest"

\* Variant: the expiry height is extracted before the validated flag is read.
LookupDecisionExpiryFirst(result) ==
    IF ~result.has_lls
    THEN "KeyError"
    ELSE IF IsValidated(result)
         THEN "return"
         ELSE "query_latest"

\* reliable_submission.py lines 42-50: what the resolver does with the
\* result of a lookup that returned.
LookupDecision(result) ==
    IF IsValidated(result)
    THEN "return"
    ELSE IF ~result.has_lls
         THEN "KeyError"
         ELSE "query_latest"

\* Variant: the loop goes on until the two heights are equal.
NotYetFinalUnequal(lls, latest) == lls # latest

\* Variant: the comparison is strict the other way round (lls >= latest).
NotYetFinalAtOrAbove(lls, latest) == lls >= latest

\* reliable_submission.py line 52: the outcome is not yet final.
NotYetFinal(lls, latest) == lls > latest

\* Variant: the two heights are swapped in the message.
ExpiredErrorSwapped(lls, latest) ==
    Raise("XRPLReliableSubmissionException",
          <<"The latest ledger sequence is greater than the last ledger sequence",
            lls, latest>>)

\* reliable_submission.py lines 56-59.
ExpiredError(lls, latest) ==
    Raise("XRPLReliableSubmissionException",
          <<"The latest ledger sequence is greater than the last ledger sequence",
            latest, lls>>)

\* Variant: every code of the "tec" class is taken as accepted as well.
EngineAcceptedOrClaimed(result) ==
    result.engine_result \in {"tesSUCCESS", "tecUNFUNDED"}

\* reliable_submission.py line 87 (negated): the submit was accepted.
EngineAccepted(result) == result.engine_result = "tesSUCCESS"

\* reliable_submission.py lines 88-92.
RejectedError(result) ==
    Raise("XRPLReliableSubmissionException",
          <<"Transaction failed", result.engine_result,
            result.engine_result_message>>)

\* Variant: the resolver is given the hash found in the submit response.
ResolverKeyEchoed(computed_hash, submit_result) == submit_result.tx_hash

\* reliable_submission.py line 94: the hash handed to the resolver is the
\* one computed at line 84; the submit response is not consulted.
ResolverKey(computed_hash, submit_result) == computed_hash

\* ----------------------------------------------------------------- states
NotStarted ==
    /\ transaction \in Transactions
    /\ ledger_at_submit \in SubmitHeights
    /\ pc = "start"
    /\ transaction_hash = <<>>
    /\ last_ledger_sequence = 0
    /\ latest_ledger_sequence = 0
    /\ outcome = NoOutcome
    /\ submits = 0 /\ sleeps = 0 /\ lookups = 0 /\ oracles = 0
    /\ elapsed = 0
    /\ lookup_key = <<>>
    /\ last_submit = NoReply
    /\ last_lookup = NoReply
    /\ lookup_replies = 0
    /\ expiries_seen = {}
    /\ oracle_log = <<>>
    /\ last_raised = NoReply
    /\ trace = <<>>
    /\ cancelled = NoCancel

Init ==
    /\ NotStarted
    /\ tasks = <<>>

\* The coroutine ends with the given result.
Finish(result) ==
    /\ pc' = "done"
    /\ outcome' = result

\* Variant: the resolver is entered without starting a sleep.
EnterResolverNoDelay ==
    /\ pc' = "await_sleep"
    /\ sleeps' = sleeps
    /\ UNCHANGED outcome

\* Entry of _wait_for_final_transaction_outcome: line 34 starts the sleep.
EnterResolver ==
    /\ pc' = "await_sleep"
    /\ sleeps' = sleeps + 1
    /\ UNCHANGED outcome

\* Lines 84-85: hash the transaction, issue the submit request.
SendReliableSubmission ==
    /\ pc = "start"
    /\ transaction_hash' = get_hash(transaction)
    /\ submits' = submits + 1
    /\ pc' = "await_submit"
    /\ trace' = Append(trace, "submit_call")
    /\ UNCHANGED <<transaction, last_ledger_sequence, latest_ledger_sequence,
                   outcome, sleeps, lookups, oracles, elapsed, lookup_key,
                   ledger_at_submit, last_submit, last_lookup, lookup_replies,
                   expiries_seen, oracle_log, last_raised, cancelled,
                   tasks>>

\* Lines 85-94: the submit call returns or raises.
SubmitReturns(reply) ==
    /\ pc = "await_submit"
    /\ last_submit' = reply
    /\ IF reply.raised
       THEN /\ Finish(Propagate(reply))
            /\ last_raised' = reply
            /\ UNCHANGED <<sleeps, transaction_hash>>
       ELSE /\ UNCHANGED last_raised
            /\ IF EngineAccepted(reply)
               THEN /\ EnterResolver
                    /\ transaction_hash' = ResolverKey(transaction_hash, reply)
               ELSE /\ Finish(RejectedError(reply))
                    /\ UNCHANGED <<sleeps, transaction_hash>>
    /\ trace' = trace \o <<"submit_reply">>
                   \o (IF pc' = "await_sleep" THEN <<"sleep_start">> ELSE <<>>)
    /\ UNCHANGED <<transaction, last_ledger_sequence,
                   latest_ledger_sequence, submits, lookups, oracles, elapsed,
                   lookup_key, ledger_at_submit, last_lookup, lookup_replies,
                   expiries_seen, oracle_log, cancelled,
                   tasks>>

\* Variant: the tx request and the ledger request are sent together
\* (gathered) when the sleep is over.
PollConcurrent ==
    /\ pc = "await_sleep"
    /\ elapsed' = elapsed + _LEDGER_CLOSE_TIME
    /\ lookups' = lookups + 1
    /\ lookup_key' = transaction_hash
    /\ pc' = "await_lookup"
    /\ trace' = trace \o <<"sleep_end", "tx_call", "ledger_call">>
    /\ UNCHANGED <<transaction, transaction_hash, last_ledger_sequence,
                   latest_ledger_sequence, outcome, submits, sleeps, oracles,
                   ledger_at_submit, last_submit, last_lookup, lookup_replies,
                   expiries_seen, oracle_log, last_raised, cancelled,
                   tasks>>

\* Lines 34-40: the sleep is over, the tx request goes out.
Poll ==
    /\ pc = "await_sleep"
    /\ elapsed' = elapsed + _LEDGER_CLOSE_TIME
    /\ lookups' = lookups + 1
    /\ lookup_key' = transaction_hash
    /\ pc' = "await_lookup"
    /\ trace' = trace \o <<"sleep_end", "tx_call">>
    /\ UNCHANGED <<transaction, transaction_hash, last_ledger_sequence,
                   latest_ledger_sequence, outcome, submits, sleeps, oracles,
                   ledger_at_submit, last_submit, last_lookup, lookup_replies,
                   expiries_seen, oracle_log, last_raised, cancelled,
                   tasks>>

SleepReturns ==
    /\ lookups < MaxPolls
    /\ Poll

\* Lines 38-50 with ledger.py 42-53: the tx request returns or raises.
LookupReturns(reply) ==
    /\ pc = "await_lookup"
    /\ last_lookup' = reply
    /\ lookup_replies' = lookup_replies + 1
    /\ expiries_seen' = IF ~reply.raised /\ reply.has_lls
                        THEN expiries_seen \cup {reply.LastLedgerSequence}
                        ELSE expiries_seen
    /\ last_raised' = IF reply.raised THEN reply ELSE last_raised
    /\ LET r == get_transaction_from_hash(reply) IN
       IF r.kind = "raised"
       THEN Finish(r) /\ UNCHANGED <<last_ledger_sequence, oracles>>
       ELSE LET d == LookupDecision(r.response) IN
            IF d = "return"
            THEN Finish(r) /\ UNCHANGED <<last_ledger_sequence, oracles>>
            ELSE IF d = "KeyError"
            THEN /\ Finish(Raise("KeyError", <<"LastLedgerSequence">>))
                 /\ UNCHANGED <<last_ledger_sequence, oracles>>
            ELSE /\ last_ledger_sequence' = r.response.LastLedgerSequence
                 /\ oracles' = oracles + 1
                 /\ pc' = "await_oracle"
                 /\ UNCHANGED outcome
    /\ trace' = trace \o <<"tx_reply">>
                   \o (IF pc' = "await_oracle" THEN <<"ledger_call">> ELSE <<>>)
    /\ UNCHANGED <<transaction, transaction_hash, latest_ledger_sequence,
                   submits, sleeps, lookups, elapsed, lookup_key,
                   ledger_at_submit, last_submit, oracle_log, cancelled,
                   tasks>>

\* Lines 48-59: the latest validated ledger sequence returns or raises.
OracleReturns(reply) ==
    /\ pc = "await_oracle"
    /\ IF reply.raised
       THEN /\ Finish(Propagate(reply))
            /\ last_raised' = reply
            /\ UNCHANGED <<latest_ledger_sequence, oracle_log, sleeps>>
       ELSE /\ latest_ledger_sequence' = reply.height
            /\ oracle_log' = Append(oracle_log, reply.height)
            /\ UNCHANGED last_raised
            /\ IF NotYetFinal(last_ledger_sequence, reply.height)
               THEN EnterResolver
               ELSE /\ Finish(ExpiredError(last_ledger_sequence, reply.height))
                    /\ UNCHANGED sleeps
    /\ trace' = trace \o <<"ledger_reply">>
                   \o (IF pc' = "await_sleep" THEN <<"sleep_start">> ELSE <<>>)
    /\ UNCHANGED <<transaction, transaction_hash, last_ledger_sequence,
                   submits, lookups, oracles, elapsed, lookup_key,
                   ledger_at_submit, last_submit, last_lookup, lookup_replies,
                   expiries_seen, cancelled,
                   tasks>>

SubmitStep == \E reply \in SubmitReplies : SubmitReturns(reply)
LookupStep == \E reply \in TxReplies : LookupReturns(reply)
OracleStep == \E reply \in OracleReplies : OracleReturns(reply)

Next ==
    \/ SendReliableSubmission
    \/ SubmitStep
    \/ SleepReturns
    \/ LookupStep
    \/ OracleStep

Spec == Init /\ [][Next]_vars

\* --------------------------------------------------------- cancellation
\* The places where the coroutine is suspended in an await.
SuspensionPoints ==
    {"await_submit", "await_sleep", "await_lookup", "await_oracle"}

\* Variant: a cancellation delivered during the sleep is caught and the
\* resolver carries on with its lookup.
CancelSwallowed ==
    /\ pc \in SuspensionPoints
    /\ cancelled' = [at |-> pc, sleeps |-> sleeps, lookups |-> lookups,
                     oracles |-> oracles]
    /\ IF pc = "await_sleep"
       THEN /\ pc' = "await_lookup"
            /\ lookups' = lookups + 1
            /\ lookup_key' = transaction_hash
            /\ trace' = trace \o <<"cancel", "tx_call">>
            /\ UNCHANGED outcome
       ELSE /\ Finish(Raise("CancelledError", <<"cancelled at", pc>>))
            /\ trace' = Append(trace, "cancel")
            /\ UNCHANGED <<lookups, lookup_key>>
    /\ UNCHANGED <<transaction, transaction_hash, last_ledger_sequence,
                   latest_ledger_sequence, submits, sleeps, oracles,
                   elapsed, ledger_at_submit, last_submit, last_lookup,
                   lookup_replies, expiries_seen, oracle_log, last_raised,
                   tasks>>

\* The caller cancels the task while it is suspended at line 85, 34, 38 or
\* 48: CancelledError is raised at that await and, there being no handler,
\* leaves both functions; the pending sleep or reply is dropped.
Cancel ==
    /\ pc \in SuspensionPoints
    /\ cancelled' = [at |-> pc, sleeps |-> sleeps, lookups |-> lookups,
                     oracles |-> oracles]
    /\ Finish(Raise("CancelledError", <<"cancelled at", pc>>))
    /\ trace' = Append(trace, "cancel")
    /\ UNCHANGED <<transaction, transaction_hash, last_ledger_sequence,
                   latest_ledger_sequence, submits, sleeps, lookups, oracles,
                   elapsed, lookup_key, ledger_at_submit, last_submit,
                   last_lookup, lookup_replies, expiries_seen, oracle_log,
                   last_raised,
                   tasks>>

CancelNext ==
    \/ Next
    \/ Cancel

CancelSpec == Init /\ [][CancelNext]_vars

\* ------------------------------------- several resolutions on one client
\* _wait_for_final_transaction_outcome(transaction_hash, client) called for
\* several hashes (or twice for one hash) on the same client.  Each call has
\* its own parameters and locals; the module holds no variable besides the
\* constant _LEDGER_CLOSE_TIME.  A resolution is a record of its locals,
\* the queries it has sent and the replies it has received.
Runs == {"first", "second"}

PairHeights == {10, 60}

\* Replies of the tx request in these runs.
PairTxReplies ==
    {r \in TxReplies :
        \/ r.raised
        \/ ~r.is_successful /\ r.error = "txnNotFound"
        \/ /\ r.is_successful
           /\ r.has_validated
           /\ r.has_lls => r.LastLedgerSequence \in {20, 50}}

\* Replies of the ledger request in these runs, never below the height the
\* resolution has seen before.
PairOracleReplies(st) ==
    [op : {"ledger"}, raised : {TRUE}, exc : {"TransportFailure"}]
    \cup
    [op : {"ledger"}, raised : {FALSE},
     height : {h \in PairHeights : h >= st.latest_ledger_sequence}]

\* Lines 25-34: the resolver is entered and starts its sleep.
NewTask(key) ==
    [key |-> key,
     pc |-> "await_sleep",
     last_ledger_sequence |-> 0,
     latest_ledger_sequence |-> 0,
     outcome |-> NoOutcome,
     queries |-> << <<"sleep", <<>> >> >>,
     replies |-> <<>>]

\* Lines 34-40: the sleep is over, the tx request goes out.
TaskAfterSleep(st) ==
    [st EXCEPT !.pc = "await_lookup",
               !.queries = Append(@, <<"tx", st.key>>)]

\* Lines 38-50 with ledger.py 42-53: the tx request returns or raises.
TaskAfterLookup(st, reply) ==
    LET r == get_transaction_from_hash(reply)
        got == [st EXCEPT !.replies = Append(@, reply)]
    IN  IF r.kind = "raised"
        THEN [got EXCEPT !.pc = "done", !.outcome = r]
        ELSE LET d == LookupDecision(r.response) IN
             IF d = "return"
             THEN [got EXCEPT !.pc = "done", !.outcome = r]
             ELSE IF d = "KeyError"
             THEN [got EXCEPT !.pc = "done",
                              !.outcome = Raise("KeyError",
                                                <<"LastLedgerSequence">>)]
             ELSE [got EXCEPT
                     !.last_ledger_sequence = r.response.LastLedgerSequence,
                     !.pc = "await_oracle",
                     !.queries = Append(@, <<"ledger", <<>> >>)]

\* Lines 48-59: the latest validated ledger sequence returns or raises.
TaskAfterOracle(st, reply) ==
    LET got == [st EXCEPT !.replies = Append(@, reply)] IN
    IF reply.raised
    THEN [got EXCEPT !.pc = "done", !.outcome = Propagate(reply)]
    ELSE IF NotYetFinal(st.last_ledger_sequence, reply.height)
         THEN [got EXCEPT !.latest_ledger_sequence = reply.height,
                          !.pc = "await_sleep",
                          !.queries = Append(@, <<"sleep", <<>> >>)]
         ELSE [got EXCEPT !.latest_ledger_sequence = reply.height,
                          !.pc = "done",
                          !.outcome = ExpiredError(st.last_ledger_sequence,
                                                   reply.height)]

\* Variant: the two heights are kept in module-level variables, so a step
\* of one resolution overwrites them for all.
UpdateTaskSharedHeights(ts, t, st) ==
    [u \in DOMAIN ts |->
        IF u = t
        THEN st
        ELSE [ts[u] EXCEPT
                !.last_ledger_sequence = st.last_ledger_sequence,
                !.latest_ledger_sequence = st.latest_ledger_sequence]]

\* Lines 25-59: a step of a resolution assigns its own locals only.
UpdateTask(ts, t, st) == [ts EXCEPT ![t] = st]

\* Number of lookups a resolution has sent.
LookupsSent(st) ==
    Cardinality({i \in 1..Len(st.queries) : st.queries[i][1] = "tx"})

PairInit ==
    /\ NotStarted
    /\ transaction = [blob |-> "txA", has_lls |-> TRUE,
                      last_ledger_sequence |-> 50]
    /\ ledger_at_submit = 10
    /\ tasks \in {[t \in Runs |-> NewTask(k[t])] : k \in [Runs -> EchoedHashes]}

PairPoll(t) ==
    /\ tasks[t].pc = "await_sleep"
    /\ LookupsSent(tasks[t]) < PairPolls
    /\ tasks' = UpdateTask(tasks, t, TaskAfterSleep(tasks[t]))

PairLookupReturns(t, reply) ==
    /\ tasks[t].pc = "await_lookup"
    /\ tasks' = UpdateTask(tasks, t, TaskAfterLookup(tasks[t], reply))

PairOracleReturns(t, reply) ==
    /\ tasks[t].pc = "await_oracle"
    /\ tasks' = UpdateTask(tasks, t, TaskAfterOracle(tasks[t], reply))

PairSleepStep ==
    /\ \E t \in Runs : PairPoll(t)
    /\ UNCHANGED <<transaction, pc, transaction_hash, last_ledger_sequence,
                   latest_ledger_sequence, outcome, submits, sleeps, lookups,
                   oracles, elapsed, lookup_key, ledger_at_submit,
                   last_submit, last_lookup, lookup_replies, expiries_seen,
                   oracle_log, last_raised, trace, cancelled>>

PairLookupStep ==
    /\ \E t \in Runs : \E reply \in PairTxReplies :
          PairLookupReturns(t, reply)
    /\ UNCHANGED <<transaction, pc, transaction_hash, last_ledger_sequence,
                   latest_ledger_sequence, outcome, submits, sleeps, lookups,
                   oracles, elapsed, lookup_key, ledger_at_submit,
                   last_submit, last_lookup, lookup_replies, expiries_seen,
                   oracle_log, last_raised, trace, cancelled>>

PairOracleStep ==
    /\ \E t \in Runs : \E reply \in PairOracleReplies(tasks[t]) :
          PairOracleReturns(t, reply)
    /\ UNCHANGED <<transaction, pc, transaction_hash, last_ledger_sequence,
                   latest_ledger_sequence, outcome, submits, sleeps, lookups,
                   oracles, elapsed, lookup_key, ledger_at_submit,
                   last_submit, last_lookup, lookup_replies, expiries_seen,
                   oracle_log, last_raised, trace, cancelled>>

PairNext ==
    \/ PairSleepStep
    \/ PairLookupStep
    \/ PairOracleStep

PairSpec == PairInit /\ [][PairNext]_vars

\* ------------------------------------------------ a well-behaved node stub
\* The collaborators never raise, every lookup knows the transaction and
\* reports the expiry height the transaction was signed with, and the
\* oracle reports a strictly increasing sequence of heights, none below the
\* height at submission.
StubSubmitReplies == {r \in SubmitReplies : ~r.raised}

StubTxReplies ==
    {r \in TxReplies :
        /\ ~r.raised
        /\ r.is_successful
        /\ r.has_lls
        /\ r.LastLedgerSequence = transaction.last_ledger_sequence}

StubOracleReplies ==
    {r \in OracleReplies :
        /\ ~r.raised
        /\ oracle_log # <<>> => r.height > Last(oracle_log)}

StubSubmitStep == \E reply \in StubSubmitReplies : SubmitReturns(reply)
StubLookupStep == \E reply \in StubTxReplies : LookupReturns(reply)
StubOracleStep == \E reply \in StubOracleReplies : OracleReturns(reply)

LiveNext ==
    \/ SendReliableSubmission
    \/ StubSubmitStep
    \/ Poll
    \/ StubLookupStep
    \/ StubOracleStep

\* The event loop resumes the coroutine whenever the awaited sleep or reply
\* is ready, and the stub answers every request.
\* The transactions of these executions carry their expiry height.
LiveInit == Init /\ transaction.has_lls

LiveSpec == LiveInit /\ [][LiveNext]_vars /\ WF_vars(LiveNext)

TypeOK ==
    /\ pc \in {"start", "await_submit", "await_sleep", "await_lookup",
               "await_oracle", "done"}
    /\ submits \in 0..1
    /\ lookups \in 0..MaxPolls
    /\ sleeps \in 0..(MaxPolls + 1)
    /\ oracles \in 0..MaxPolls
    /\ elapsed = _LEDGER_CLOSE_TIME * lookups

\* ------------------------------------------------------------ vocabulary
ExpiredText ==
    "The latest ledger sequence is greater than the last ledger sequence"

\* The execution ended in the expiry failure of lines 56-59.
Expired ==
    /\ outcome.kind = "raised"
    /\ outcome.exc = "XRPLReliableSubmissionException"
    /\ outcome.detail[1] = ExpiredText

\* The execution ended by returning a lookup response (line 45).
Validated == outcome.kind = "returned"

\* The latest tx request was answered with a response (nothing was raised).
LookupAnswered == last_lookup.op = "tx" /\ ~last_lookup.raised

\* ... and the response reports validated = true.
LookupSaidValidated ==
    /\ LookupAnswered
    /\ last_lookup.is_successful
    /\ last_lookup.has_validated /\ last_lookup.validated

\* ... and the response knows the transaction, holds its expiry height and
\* does not report validated = true (the flag is absent or false).
LookupSaidPending ==
    /\ LookupAnswered
    /\ last_lookup.is_successful
    /\ ~(last_lookup.has_validated /\ last_lookup.validated)
    /\ last_lookup.has_lls

\* ... and the response says the node does not know the transaction.
LookupSaidNotFound ==
    /\ LookupAnswered
    /\ ~last_lookup.is_successful
    /\ last_lookup.error = "txnNotFound"

\* Number of oracle queries that were answered (by a height or a failure).
oracle_answers ==
    Len(oracle_log) + (IF last_raised.op = "ledger" THEN 1 ELSE 0)

\* The oracle has reported a height for the iteration of the latest lookup.
Decided ==
    /\ LookupSaidPending
    /\ lookup_replies = lookups
    /\ Len(oracle_log) = lookups

\* ----------------------------------------------------------------- claims

\* C1: the resolver never ends in the Expired failure while the latest
\* ledger height it observed is less than or equal to the expiry height
\* reported by the lookup of that iteration (equal heights keep polling).
C1_NeverExpiredAtOrBelowExpiry ==
    Expired => Last(oracle_log) > last_lookup.LastLedgerSequence

C3_ValidatedIsFinal ==
    LookupSaidValidated =>
        /\ pc = "done"
        /\ outcome = Return(last_lookup)
        /\ lookup_replies = lookups
        /\ sleeps = lookups
        /\ oracles = lookups - 1
        /\ Len(oracle_log) = oracles

C3_Witness ==
    /\ LookupSaidValidated
    /\ lookups >= 2
    /\ last_lookup.has_lls
    /\ last_lookup.LastLedgerSequence < Last(oracle_log)
    /\ Validated

\* C4: a submit verdict other than tesSUCCESS ends the execution at once
\* with the Submission Rejected error carrying the verdict code and message;
\* no sleep, lookup or oracle query is ever issued.
C4_RejectedNeverPolls ==
    (last_submit.op = "submit" /\ ~last_submit.raised
        /\ last_submit.engine_result # "tesSUCCESS")
      => /\ pc = "done"
         /\ outcome = Raise("XRPLReliableSubmissionException",
                            <<"Transaction failed", last_submit.engine_result,
                              last_submit.engine_result_message>>)
         /\ submits = 1
         /\ sleeps = 0 /\ lookups = 0 /\ oracles = 0
         /\ lookup_replies = 0 /\ oracle_log = <<>>

C4_Witness ==
    /\ pc = "done"
    /\ last_submit.op = "submit" /\ ~last_submit.raised
    /\ last_submit.engine_result = "tecUNFUNDED"
    /\ last_submit.engine_result_message = "msg2"
    /\ outcome.kind = "raised"

\* C5: a lookup answered "transaction not found" does not end the
\* resolution: the resolver goes on to query the oracle for that iteration.
C5_NotFoundKeepsPolling ==
    (LookupSaidNotFound /\ lookup_replies = lookups
        /\ oracle_answers < lookups)
      => (pc = "await_oracle" /\ outcome = NoOutcome)

\* C8: when the first lookup after an accepted submit reports validated =
\* true, the execution returns that response after exactly one submit and
\* one lookup, with no oracle query.
C8_FirstPollValidated ==
    (lookup_replies = 1 /\ LookupSaidValidated)
      => /\ pc = "done"
         /\ Validated
         /\ outcome.response = last_lookup
         /\ submits = 1
         /\ lookups = 1
         /\ oracles = 0 /\ oracle_log = <<>>
         /\ last_submit.engine_result = "tesSUCCESS"

C8_Witness ==
    /\ lookup_replies = 1
    /\ LookupSaidValidated
    /\ last_lookup.has_lls
    /\ last_lookup.LastLedgerSequence < ledger_at_submit
    /\ pc = "done" /\ Validated

\* C9: an Expired failure names the height of the last oracle reading and
\* the expiry height of the last lookup; with every lookup reporting expiry
\* 50 without validated = true and oracle readings 10 then 60 the execution
\* ends Expired with latest 60 and expiry 50 after exactly two lookups.
C9_ExpiredCarriesBothHeights ==
    /\ Expired =>
          /\ oracle_log # <<>>
          /\ LookupSaidPending
          /\ outcome.detail = <<ExpiredText, Last(oracle_log),
                                last_lookup.LastLedgerSequence>>
    /\ (oracle_log = <<10, 60>> /\ expiries_seen = {50} /\ LookupSaidPending)
          => /\ pc = "done"
             /\ Expired
             /\ outcome.detail = <<ExpiredText, 60, 50>>
             /\ lookups = 2 /\ oracles = 2

C9_Witness ==
    /\ oracle_log = <<10, 60>>
    /\ expiries_seen = {50}
    /\ LookupSaidPending
    /\ Expired
    /\ lookups = 2

\* C10: a failure raised by the submit call, by the tx request or by the
\* oracle query, and an unsuccessful response to the tx request, end the
\* execution at once with that very failure; it is not turned into Rejected
\* or Expired, and no sleep, lookup or oracle query follows it.
C10_FailuresPropagate ==
    /\ last_raised.op # "none" =>
          /\ pc = "done"
          /\ outcome = Raise(last_raised.exc, <<"raised by", last_raised.op>>)
          /\ sleeps = lookups
          /\ lookup_replies = lookups
          /\ oracle_answers = oracles
          /\ last_raised.op = "submit" => (lookups = 0 /\ oracles = 0)
          /\ last_raised.op = "tx" => oracles = lookups - 1
          /\ last_raised.op = "ledger" => oracles = lookups
    /\ (LookupAnswered /\ ~last_lookup.is_successful) =>
          /\ pc = "done"
          /\ outcome = Raise("XRPLRequestFailureException",
                             <<"result", last_lookup.error>>)
          /\ sleeps = lookups
          /\ lookup_replies = lookups
          /\ oracles = lookups - 1
          /\ oracle_answers = oracles

C10_Witness ==
    /\ last_raised.op = "ledger"
    /\ last_raised.exc = "TransportFailure"
    /\ lookups >= 2
    /\ pc = "done"
    /\ outcome.kind = "raised"

\* The oracle readings so far form a strictly increasing sequence.
StrictlyIncreasing ==
    \A i \in 1..(Len(oracle_log) - 1) : oracle_log[i] < oracle_log[i + 1]

\* The latest oracle reading has reached the transaction's expiry height.
ExpiryReached ==
    /\ oracle_log # <<>>
    /\ Last(oracle_log) >= transaction.last_ledger_sequence

C7_LateTransactionEndsExpired ==
    (/\ pc = "done"
     /\ last_submit.op = "submit" /\ ~last_submit.raised
     /\ last_submit.engine_result = "tesSUCCESS"
     /\ transaction.has_lls
     /\ transaction.last_ledger_sequence < ledger_at_submit
     /\ last_raised.op = "none"
     /\ StrictlyIncreasing
     /\ expiries_seen \subseteq {transaction.last_ledger_sequence}
     /\ (LookupSaidNotFound \/ LookupSaidPending))
      => Expired

\* The execution ended in the rejection failure of lines 88-92.
Rejected ==
    /\ outcome.kind = "raised"
    /\ outcome.exc = "XRPLReliableSubmissionException"
    /\ outcome.detail[1] = "Transaction failed"

\* The latest tx request was answered successfully, without validated =
\* true and without the key LastLedgerSequence.
LookupOmittedExpiry ==
    /\ LookupAnswered
    /\ last_lookup.is_successful
    /\ ~(last_lookup.has_validated /\ last_lookup.validated)
    /\ ~last_lookup.has_lls

\* C11: a successful lookup that neither reports validated = true nor holds
\* the expiry height ends the execution with an error (KeyError) of another
\* kind than the Rejected and Expired failures; the resolver does not loop
\* and sends no oracle query for that iteration.
C11_MissingExpiryIsADefect ==
    LookupOmittedExpiry =>
        /\ pc = "done"
        /\ outcome.kind = "raised"
        /\ outcome.exc = "KeyError"
        /\ outcome.exc # "XRPLReliableSubmissionException"
        /\ ~Rejected /\ ~Expired
        /\ lookup_replies = lookups
        /\ sleeps = lookups
        /\ oracles = lookups - 1
        /\ Len(oracle_log) = oracles

C11_Witness ==
    /\ LookupOmittedExpiry
    /\ last_lookup.has_validated
    /\ lookups >= 2
    /\ pc = "done"
    /\ outcome.kind = "raised"

\* The class of the exception the execution ended with.
KindOfError == outcome.exc

\* C12 (as stated): the kind of the error raised tells Rejected, Expired and
\* an infrastructure failure apart: no two of them are raised with the same
\* exception class.
C12_KindTellsOutcomesApart ==
    /\ Rejected =>
          \A l, h \in Heights : KindOfError # ExpiredError(l, h).exc
    /\ Expired =>
          \A r \in StubSubmitReplies : KindOfError # RejectedError(r).exc
    /\ (pc = "done" /\ last_raised.op # "none") => (~Rejected /\ ~Expired)

\* C12 (amended): Rejected and Expired are raised with one and the same
\* class, XRPLReliableSubmissionException, and differ in the message text
\* only; an infrastructure failure (a raised collaborator failure or an
\* unsuccessful lookup response) and the missing-expiry KeyError are raised
\* with other classes, so the class tells them apart from those two.
C12_ClassAndTextTellOutcomesApart ==
    /\ (last_submit.op = "submit" /\ ~last_submit.raised
           /\ last_submit.engine_result # "tesSUCCESS")
          => (Rejected /\ ~Expired)
    /\ (Decided /\ pc = "done") => (Expired /\ ~Rejected)
    /\ (Rejected \/ Expired)
          => (KindOfError = "XRPLReliableSubmissionException"
                /\ last_raised.op = "none"
                /\ ~(LookupAnswered /\ ~last_lookup.is_successful))
    /\ (pc = "done" /\ (last_raised.op # "none"
                          \/ (LookupAnswered /\ ~last_lookup.is_successful)))
          => (outcome.kind = "raised"
                /\ KindOfError \in Exceptions
                /\ KindOfError # "XRPLReliableSubmissionException")
    /\ LookupOmittedExpiry
          => (KindOfError = "KeyError" /\ KindOfError \notin Exceptions)

C12_Witness ==
    /\ pc = "done"
    /\ LookupAnswered /\ ~last_lookup.is_successful
    /\ last_lookup.error = "tooBusy"
    /\ lookups >= 2
    /\ KindOfError = "XRPLRequestFailureException"

\* C13 (as stated): a transaction without last_ledger_sequence is refused
\* with XRPLReliableSubmissionException as a violated precondition; the
\* resolver never sleeps or polls for it.
C13_MissingExpiryRefusedUpFront ==
    ~transaction.has_lls =>
        /\ sleeps = 0 /\ lookups = 0 /\ oracles = 0
        /\ (pc = "done" /\ last_raised.op = "none")
              => (outcome.kind = "raised"
                    /\ outcome.exc = "XRPLReliableSubmissionException")

\* C18: every lookup is sent with the hash computed from the transaction
\* before the submit request; whatever hash an accepted submit response
\* echoes back, the key is the same.
C18_PollingKeyIsComputedHash ==
    /\ pc # "start" => transaction_hash = get_hash(transaction)
    /\ lookups >= 1 => lookup_key = get_hash(transaction)
    /\ lookups = 0 => lookup_key = <<>>

C18_Witness ==
    /\ lookups >= 2
    /\ pc = "await_lookup"
    /\ ~last_submit.raised
    /\ last_submit.tx_hash # get_hash(transaction)
    /\ lookup_key = get_hash(transaction)

\* C19: at every moment submits <= 1, lookups <= sleeps <= lookups + 1 and
\* oracle queries <= lookups <= oracle queries + 1; every lookup was
\* preceded by one sleep of _LEDGER_CLOSE_TIME seconds; a Validated end has
\* one oracle query less than lookups, an Expired end as many as lookups.
C19_CallCounts ==
    /\ submits <= 1
    /\ lookups <= sleeps /\ sleeps <= lookups + 1
    /\ oracles <= lookups /\ lookups <= oracles + 1
    /\ elapsed = _LEDGER_CLOSE_TIME * lookups
    /\ (pc = "done" /\ Validated) => oracles = lookups - 1
    /\ (pc = "done" /\ Expired) => oracles = lookups

C19_Witness ==
    /\ pc = "done"
    /\ Expired
    /\ lookups = 3 /\ sleeps = 3 /\ oracles = 3
    /\ elapsed = 12

\* The events that may directly follow an event of the trace.
FollowersOf(e) ==
    CASE e = "submit_call"  -> {"submit_reply"}
      [] e = "submit_reply" -> {"sleep_start"}
      [] e = "sleep_start"  -> {"sleep_end"}
      [] e = "sleep_end"    -> {"tx_call"}
      [] e = "tx_call"      -> {"tx_reply"}
      [] e = "tx_reply"     -> {"ledger_call"}
      [] e = "ledger_call"  -> {"ledger_reply"}
      [] e = "ledger_reply" -> {"sleep_start"}
      [] OTHER              -> {}

\* The reply that ends a call or a sleep.
ReplyOf(e) ==
    CASE e = "submit_call" -> "submit_reply"
      [] e = "sleep_start" -> "sleep_end"
      [] e = "tx_call"     -> "tx_reply"
      [] e = "ledger_call" -> "ledger_reply"
      [] OTHER             -> "none"

\* Positions of the trace holding a call or sleep that has been started and
\* whose reply is not the very next event.
Outstanding ==
    {i \in 1..Len(trace) :
        /\ ReplyOf(trace[i]) # "none"
        /\ (i = Len(trace) \/ trace[i + 1] # ReplyOf(trace[i]))}

\* C14: the steps of one execution are strictly sequential: the submit is
\* answered before the first sleep starts, every iteration runs sleep, tx
\* request, ledger request in this order, each one answered before the next
\* is sent, so at most one of them is outstanding and every ledger request
\* is sent after the reply to the lookup of its iteration.
C14_StrictlySequential ==
    /\ trace # <<>> => trace[1] = "submit_call"
    /\ \A i \in 1..(Len(trace) - 1) : trace[i + 1] \in FollowersOf(trace[i])
    /\ Cardinality(Outstanding) <= 1
    /\ Outstanding \subseteq {Len(trace)}
    /\ (pc \in SuspensionPoints) = (Outstanding # {})
    /\ \A i \in 1..Len(trace) :
          trace[i] = "ledger_call" => (i > 1 /\ trace[i - 1] = "tx_reply")

C14_Witness ==
    /\ pc = "await_oracle"
    /\ lookups = 2
    /\ trace = <<"submit_call", "submit_reply",
                 "sleep_start", "sleep_end", "tx_call", "tx_reply",
                 "ledger_call", "ledger_reply",
                 "sleep_start", "sleep_end", "tx_call", "tx_reply",
                 "ledger_call">>

\* C15: once the caller has cancelled the task at a suspension point, no
\* sleep, lookup or oracle query is issued any more and the execution ends
\* with the cancellation, neither Validated nor Expired.
C15_CancelStopsQueries ==
    cancelled.at # "none" =>
        /\ pc = "done"
        /\ outcome = Raise("CancelledError", <<"cancelled at", cancelled.at>>)
        /\ ~Validated /\ ~Expired
        /\ sleeps = cancelled.sleeps
        /\ lookups = cancelled.lookups
        /\ oracles = cancelled.oracles
        /\ Last(trace) = "cancel"

C15_Witness ==
    /\ cancelled.at = "await_sleep"
    /\ cancelled.lookups = 2
    /\ pc = "done"
    /\ outcome.kind = "raised"

\* What a resolution does when it runs alone and receives the given
\* replies one after the other.
RECURSIVE RunAlone(_, _)
RunAlone(st, rs) ==
    IF rs = <<>>
    THEN st
    ELSE LET polled == IF st.pc = "await_sleep" THEN TaskAfterSleep(st) ELSE st
             reply == Head(rs)
         IN  IF polled.pc = "await_lookup" /\ reply.op = "tx"
             THEN RunAlone(TaskAfterLookup(polled, reply), Tail(rs))
             ELSE IF polled.pc = "await_oracle" /\ reply.op = "ledger"
             THEN RunAlone(TaskAfterOracle(polled, reply), Tail(rs))
             ELSE [st EXCEPT !.pc = "diverged"]

\* The resolution is where it would be, alone, after the same replies (or
\* one step further: its sleep is over and the next lookup is out).
AsWhenAlone(st) ==
    LET alone == RunAlone(NewTask(st.key), st.replies) IN
    \/ st = alone
    \/ alone.pc = "await_sleep" /\ st = TaskAfterSleep(alone)

\* C16: resolutions running side by side on one client do not influence each
\* other: under every interleaving of their steps the outcome, the queries
\* and the locals of each are those of a run alone with the same replies.
C16_ResolutionsIndependent ==
    \A t \in Runs : AsWhenAlone(tasks[t])

C16_Witness ==
    /\ tasks["first"].key # tasks["second"].key
    /\ tasks["first"].pc = "done"
    /\ tasks["first"].outcome.kind = "raised"
    /\ tasks["first"].outcome.exc = "XRPLReliableSubmissionException"
    /\ tasks["first"].last_ledger_sequence = 50
    /\ Len(tasks["first"].replies) = 4
    /\ tasks["second"].pc = "await_oracle"
    /\ tasks["second"].last_ledger_sequence = 20
    /\ Len(tasks["second"].replies) = 3

\* The node already reports validated = true: the first reply to the
\* resolution is a successful response with the flag set.
FirstReplyValidated(st) ==
    /\ st.replies # <<>>
    /\ ~st.replies[1].raised
    /\ st.replies[1].is_successful
    /\ st.replies[1].has_validated /\ st.replies[1].validated

\* C17: resolving one hash twice while the node reports the same validated
\* snapshot returns that snapshot both times, each time after one lookup
\* and no oracle query; neither run alters the other.
C17_ResolvingTwiceIsIdempotent ==
    /\ \A t \in Runs :
          FirstReplyValidated(tasks[t]) =>
              /\ tasks[t].pc = "done"
              /\ tasks[t].outcome = Return(tasks[t].replies[1])
              /\ tasks[t].queries =
                    << <<"sleep", <<>> >>, <<"tx", tasks[t].key>> >>
              /\ Len(tasks[t].replies) = 1
    /\ \A t, u \in Runs :
          (/\ tasks[t].key = tasks[u].key
           /\ FirstReplyValidated(tasks[t]) /\ FirstReplyValidated(tasks[u])
           /\ tasks[t].replies[1] = tasks[u].replies[1])
             => tasks[t] = tasks[u]

C17_Witness ==
    /\ tasks["first"].key = tasks["second"].key
    /\ FirstReplyValidated(tasks["first"])
    /\ FirstReplyValidated(tasks["second"])
    /\ tasks["first"].replies = tasks["second"].replies
    /\ tasks["first"].outcome.kind = "returned"
    /\ tasks["second"].outcome = tasks["first"].outcome

====
